---- MODULE Spec2Model ----
(***************************************************************************)
(* Span / transaction lifecycle of the two NestJS instrumentation          *)
(* libraries: otel-nestjs-instrumentation (OtelContextGuard,               *)
(* OtelInterceptor) and newrelic-nestjs-instrumentation                    *)
(* (NewrelicContextGuard, NewRelicInterceptor), with the AsyncLocalStorage *)
(* backed InternalContext that carries the ownership marker.               *)
(*                                                                         *)
(* The tracing backend (@opentelemetry/api, newrelic) is an external       *)
(* collaborator: each of its calls is a nondeterministic choice between    *)
(* the results it can give (a value, undefined, a throw).                  *)
(***************************************************************************)
EXTENDS Naturals, Sequences, FiniteSets, TLC

\* Units of work that overlap in one process.
Units == {"A", "B"}

\* Trace identity of the span/transaction the backend starts for a unit.
NewTid(u) == <<"trace", u>>

\* Trace identity of a trace that was started elsewhere.
ExtTid == <<"trace", "ext">>

\* Upper bound on the notifications one handler outcome stream delivers.
MaxEmits == 2

\* Upper bounds on the registrations made on an emitter and on the events
\* published on it, where both are free.
MaxListeners == 3
MaxPublishes == 2

\* JavaScript undefined (an unset marker, a missing trace id).
Undefined == <<"undefined", "undefined">>

\* The error object a failed backend call throws.
Err == <<"error", "backend">>

\* The ExecutionContext argument of the guard.
Ctx == <<"execution", "context">>

\* The active-trace query of the establisher has not run yet.
Pending == <<"pending", "pending">>

\* A backend call that throws.
Throw == <<"throw", "throw">>

\* No span object (getActiveSpan() returned nothing, nothing created).
NoSpan == [ref |-> "none", tid |-> Undefined, kind |-> "none"]

\* getActiveSpan() / getTraceMetadata() throws instead of giving a span
ThrowSpan == [ref |-> "throw", tid |-> Undefined, kind |-> "none"]

\* no AsyncLocalStorage store in an async resource (getStore() is undefined)
NoRec == <<"none", "none">>

\* Async resources of one unit of work: the resource the framework calls the
\* guard in, the continuation of canActivate after its await, and the
\* continuation of the framework after awaiting the guard (interceptor,
\* handler and tap callbacks run there).
Resources == Units \X {"root", "guard", "caller"}

VARIABLES
    variant,    \* which library is installed: "otel" or "newrelic"
    ctxType,    \* ctxType[u]: context.getType() of the unit
    pc,         \* pc[u]: position of the unit in the request pipeline
    storeOf,    \* storeOf[res]: the store object the async resource carries
    marker,     \* marker[rec]: customTransactionId field of a store object
    created,    \* created[u]: span/transaction the establisher started
    estQuery,   \* estQuery[u]: what the active-trace query returned at establish
    result,     \* result[u]: what canActivate returned
    captured,   \* captured[u]: span captured by OtelInterceptor.intercept
    wrapped,    \* wrapped[u]: the outcome stream is piped through tap
    emitted,    \* emitted[u]: notifications produced by the handler
    delivered,  \* delivered[u]: notifications received by the subscriber
    endLog,     \* endLog[u]: spans on which the unit's finalizer called end
    finLog,     \* finLog[u]: per notification, what the finalizer observed
    recorded,   \* recorded[u]: spans on which the handler error was recorded
    events,     \* events[u]: events the unit published on the emitter
    startError, \* startError[u]: the call of canActivate that threw, if any
    routing,    \* routing[u]: what getClass()/getHandler() of the context give
    opName,     \* opName[u]: the operation name canActivate computed
    spanOpts,   \* spanOpts[u]: what create passed to tracer.startSpan
    thrown,     \* the value under recordError and what recordError did with it
    faults,     \* whether calls into the tracing backend can throw
    listeners,  \* registrations on the shared emitter, in registration order
    calls       \* calls[u]: listener calls made by the unit's emits

vars == <<variant, ctxType, pc, storeOf, marker, created, estQuery, result,
          captured, wrapped, emitted, delivered, endLog, finLog, recorded,
          events, startError, routing, opName, spanOpts, thrown, faults,
          listeners, calls>>

----------------------------------------------------------------------------
\* InternalContext over AsyncLocalStorage

\* customTransactionId of a store object nobody has written
Unset == [val |-> Undefined, by |-> "nobody"]

\* a single module-level store object
NewRecordShared(res) == <<"process", "module">>

\* `store = {}`: the fresh object materialized in an async resource
NewRecord(res) == res

\* the store object an async chain already carries when the unit of work
\* starts inside it (materialized by an earlier access in the same chain)
ChainRecord(u) == <<u, "chain">>

Records == Resources \cup {ChainRecord(u) : u \in Units}
                     \cup {NewRecordShared(<<"A", "root">>)}

\* InternalContext.store getter: the store map after the access
\* (enterWith a new object when getStore() is empty)
store(st, res) ==
    IF st[res] = NoRec THEN [st EXCEPT ![res] = NewRecord(res)] ELSE st

\* get customTransactionId: the marker the current resource sees
getCustomTransactionId(st, mk, res) ==
    LET rec == store(st, res)[res]
    IN  mk[rec].val

\* who wrote the marker the current resource sees
markerWriter(st, mk, res) ==
    LET rec == store(st, res)[res]
    IN  mk[rec].by

\* set customTransactionId
setCustomTransactionId(st, mk, res, value, u) ==
    [mk EXCEPT ![store(st, res)[res]] = [val |-> value, by |-> u]]

\* async-context propagation: a resource created in `from` carries its store
propagate(st, from, to) == [st EXCEPT ![to] = st[from]]

----------------------------------------------------------------------------
\* helpers

\* an emit call on the shared emitter: the event name, the arguments after
\* it, and how many registrations the emitter held when it was made
Event(name, args) == [name |-> name, args |-> args, at |-> Len(listeners)]

\* the registrations an emit of name reaches, as positions in ls
registeredFor(ls, name) == {r \in 1..Len(ls) : ls[r].name = name}

\* an emitter that calls a listener registered more than once only once
emitDeduplicated(ls, ev, k) ==
    LET to == {r \in registeredFor(ls, ev.name) :
                  \A q \in 1..(r - 1) : ls[q] # ls[r]}
        nth(j) == CHOOSE r \in to : Cardinality({q \in to : q < r}) = j - 1
    IN  [j \in 1..Cardinality(to) |->
            [id |-> ls[nth(j)].id, name |-> ev.name, args |-> ev.args,
             pub |-> k, reg |-> nth(j)]]

\* EventEmitter.emit: every listener registered for the name is called, in
\* registration order, with the emitted arguments, before emit returns; a
\* listener that throws ends the emit, the ones after it are not called.
\*   k: position of the emit among the unit's emits
emit(ls, ev, k) ==
    LET to == {r \in registeredFor(ls, ev.name) :
                  \A q \in registeredFor(ls, ev.name) :
                      q < r => ~ls[q].throws}
        nth(j) == CHOOSE r \in to : Cardinality({q \in to : q < r}) = j - 1
    IN  [j \in 1..Cardinality(to) |->
            [id |-> ls[nth(j)].id, name |-> ev.name, args |-> ev.args,
             pub |-> k, reg |-> nth(j)]]

RECURSIVE emitAll(_, _, _)
\* the listener calls of the emits evs[k], evs[k+1], ... in the order made
emitAll(ls, evs, k) ==
    IF k > Len(evs) THEN <<>>
    ELSE emit(ls, evs[k], k) \o emitAll(ls, evs, k + 1)

\* The error a listener throws.
ListenerErr == <<"error", "listener">>

\* emit(name, ...) throws: a listener registered for the name does
listenerThrows(name) ==
    \E r \in registeredFor(listeners, name) : listeners[r].throws

\* how canActivate leaves after its try/catch: the emit in its catch block
\* is not guarded, so what a listener of the failure event throws leaves
\* canActivate.
\*   failed: the catch block was entered; name: the event it emits
\*   returned: the value canActivate returns otherwise
leaves(failed, name, returned) ==
    IF failed /\ listenerThrows(name) THEN "throw" ELSE returned

\* a classification that takes only http for a server span
spanKindHttpOnly(type) == IF type = "http" THEN "SERVER" ELSE "INTERNAL"

\* span kind chosen by otelInstrumentation.create
spanKind(type) == IF type \in {"http", "rpc"} THEN "SERVER" ELSE "INTERNAL"

\* the outcomes in S when the backend can throw, none otherwise
Faulty(S) == IF faults THEN S ELSE {}

\* a span of a trace started elsewhere
ExtSpan(t) == [ref |-> "ext", tid |-> t, kind |-> "SERVER"]

\* spans the backend can report as active in the chain of unit u: the one
\* its establisher started, or one of a trace started elsewhere
ActiveChoices(u) ==
    (IF created[u] # NoSpan THEN {created[u]} ELSE {}) \cup {ExtSpan(ExtTid)}

\* what the routing metadata of an ExecutionContext can be: a named
\* controller class and handler, ones whose name is empty, none at all
\* (getClass()/getHandler() give undefined), or accessors that throw
RoutingKinds == {"named", "anonymous", "missing", "throws"}

\* getTransactionName of the OpenTelemetry library
getTransactionName(r) ==
    IF r = "named" THEN "Controller.handler"
    ELSE IF r = "throws" THEN "UnknownTransaction"
    ELSE "UnknownController.unknownMethod"

\* getTransactionName of the New Relic library: `${controller.name}.
\* ${handler.name}` with no try/catch; "throw" when it raises
getTransactionNameNewrelic(r) ==
    IF r = "named" THEN "Controller.handler"
    ELSE IF r = "anonymous" THEN "."
    ELSE "throw"

\* tracer.startSpan has not been called for the unit
NoOpts == [kind |-> "none", parent |-> "none", http |-> "absent",
           rpcMethod |-> "absent", controller |-> "absent",
           handler |-> "absent", req |-> "none", ex |-> "none",
           out |-> Undefined]

\* a test that takes every trace id for missing
truthyNever(id) == FALSE

\* JavaScript truthiness of a trace id
truthy(id) == id # Undefined

\* a catch block that swallows the failure without an event
reportStartFailureSilent(evs, name, args) == evs

\* a catch block that publishes the error alone, whatever else it was given
reportStartFailureErrorOnly(evs, name, args) ==
    Append(evs, Event(name, <<args[Len(args)]>>))

\* the catch block of canActivate: the failure event appended to the events
\* of the unit
reportStartFailure(evs, name, args) == Append(evs, Event(name, args))

\* a guard that rejects the unit of work when instrumentation failed
returnValueBlocking(failed) == IF failed THEN "false" ELSE "true"

\* the value canActivate returns; failed: the catch block was entered
returnValue(failed) == "true"

----------------------------------------------------------------------------
\* thrown values and OtelInterceptor.recordError

\* a JavaScript string with the given text
Str(text) == <<"string", text>>

\* what a field of a thrown value can hold: nothing, the empty string, a
\* string, or a value that is not a string
FieldValues(tag) == {Undefined, Str(""), Str(tag), <<"number", tag>>}

\* what String(error) gives: a string, the empty string, or a TypeError
\* (an object without a usable toString)
StringForms == {Str("text"), Str(""), Throw}

\* the thrown values: instances of Error or not, with their fields
ThrownValues ==
    [isError : BOOLEAN, name : FieldValues("name"),
     message : FieldValues("message"), stack : FieldValues("stack"),
     str : StringForms]

\* no value
NoValue == [isError |-> FALSE, name |-> Undefined, message |-> Undefined,
            stack |-> Undefined, str |-> Undefined]

\* no attributes set
NoAttrs == [name |-> Undefined, message |-> Undefined, stack |-> Undefined]

\* recordError has not been called
NotThrown == [value |-> NoValue, arg |-> NoValue, attrs |-> NoAttrs,
              reported |-> FALSE, done |-> FALSE]

\* JavaScript truthiness of a field (the left operand of ||)
jsTruthy(f) == f \notin {Undefined, Str("")}

\* a || b
orElse(a, b) == IF jsTruthy(a) THEN a ELSE b

\* new Error(String(error))
NewError(error) ==
    [isError |-> TRUE, name |-> Str("Error"), message |-> error.str,
     stack |-> Str("stack"), str |-> error.str]

\* an errorObj that keeps the fields of a value that is not an Error
errorObjOwnFields(error) == error

\* const errorObj = error instanceof Error ? error : {name, message, stack}
errorObj(error) ==
    IF error.isError THEN error
    ELSE [isError |-> FALSE, name |-> Str("UnknownError"),
          message |-> error.str, stack |-> Undefined, str |-> error.str]

\* the argument of otelInstrumentation.recordException
recordedException(error) ==
    IF error.isError THEN error ELSE NewError(error)

\* the argument of otelInstrumentation.addAttributes
errorAttributes(error) ==
    LET o == errorObj(error)
    IN  [name |-> orElse(o.name, Str("UnknownError")),
         message |-> orElse(o.message, error.str),
         stack |-> orElse(o.stack, Str("No stack trace available"))]

\* String(error) is evaluated and throws before recordException is called
throwsBeforeRecord(error) == ~error.isError /\ error.str = Throw

\* String(error) is evaluated and throws while the attributes are built
throwsBeforeAttributes(error) ==
    \/ throwsBeforeRecord(error)
    \/ error.isError /\ ~jsTruthy(error.message) /\ error.str = Throw

\* the listeners an application registers through the event service while
\* it boots: one for every event name, a second one for the finish events,
\* and the first one registered for them once more
ListenerIds == {"L1", "L2"}

EventNames ==
    {"spanStarted", "spanStartFailed", "spanFinished", "spanFinishFailed",
     "transactionStarted", "transactionStartFailed", "transactionFinished",
     "transactionFinishFailed"}

\* a registration of listener id for the event name; throws: the listener
\* raises when it is called
Registration(name, id) == [name |-> name, id |-> id, throws |-> FALSE]

ThrowingRegistration(name, id) == [name |-> name, id |-> id, throws |-> TRUE]

BootListeners ==
    << Registration("spanStarted", "L1"),
       Registration("transactionStarted", "L1"),
       Registration("spanStartFailed", "L1"),
       Registration("transactionStartFailed", "L1"),
       Registration("spanFinished", "L1"),
       Registration("transactionFinished", "L1"),
       Registration("spanFinishFailed", "L1"),
       Registration("transactionFinishFailed", "L1"),
       Registration("spanFinished", "L2"),
       Registration("transactionFinished", "L2"),
       Registration("spanFinished", "L1"),
       Registration("transactionFinished", "L1") >>

TypeOK ==
    /\ variant \in {"otel", "newrelic"}
    /\ ctxType \in [Units -> {"http", "rpc", "other"}]
    /\ pc \in [Units -> {"absent", "new", "yield", "guarded", "handling",
                        "done", "threw", "rejected"}]
    /\ routing \in [Units -> RoutingKinds]
    /\ storeOf \in [Resources -> Records \cup {NoRec}]
    /\ result \in [Units -> {"pending", "true", "false", "throw"}]
    /\ wrapped \in [Units -> BOOLEAN]
    /\ startError \in [Units -> {"none", "query", "create", "headers",
                                  "metadata", "listener"}]
    /\ faults \in BOOLEAN
    /\ \A r \in 1..Len(listeners) :
         listeners[r].name \in EventNames /\ listeners[r].id \in ListenerIds
    /\ \A u \in Units : \A j \in 1..Len(calls[u]) :
         /\ calls[u][j].pub \in 1..Len(events[u])
         /\ calls[u][j].reg \in 1..Len(listeners)

\* state after construction, before any unit of work has reached the guard
Fresh ==
    /\ variant \in {"otel", "newrelic"}
    /\ ctxType \in [Units -> {"http", "rpc", "other"}]
    /\ storeOf \in [Resources -> {NoRec} \cup {ChainRecord(u) : u \in Units}]
    /\ \A r \in Resources :
         storeOf[r] # NoRec => r[2] = "root" /\ storeOf[r] = ChainRecord(r[1])
    /\ marker = [r \in Records |-> Unset]
    /\ created = [u \in Units |-> NoSpan]
    /\ estQuery = [u \in Units |-> Pending]
    /\ result = [u \in Units |-> "pending"]
    /\ captured = [u \in Units |-> NoSpan]
    /\ wrapped = [u \in Units |-> FALSE]
    /\ emitted = [u \in Units |-> <<>>]
    /\ delivered = [u \in Units |-> <<>>]
    /\ endLog = [u \in Units |-> <<>>]
    /\ finLog = [u \in Units |-> <<>>]
    /\ recorded = [u \in Units |-> <<>>]
    /\ events = [u \in Units |-> <<>>]
    /\ startError = [u \in Units |-> "none"]
    /\ routing \in [Units -> RoutingKinds]
    /\ opName = [u \in Units |-> "pending"]
    /\ spanOpts = [u \in Units |-> NoOpts]
    /\ calls = [u \in Units |-> <<>>]

\* a thrown value handed to recordError, no unit of work in flight
InitRecord ==
    /\ Fresh
    /\ variant = "otel"
    /\ ctxType = [u \in Units |-> "http"]
    /\ storeOf = [r \in Resources |-> NoRec]
    /\ pc = [u \in Units |-> "absent"]
    /\ routing = [u \in Units |-> "named"]
    /\ faults = FALSE
    /\ thrown \in {[NotThrown EXCEPT !.value = v] : v \in ThrownValues}
    /\ listeners = BootListeners

\* one unit of work, against a backend whose calls may throw
Init ==
    /\ Fresh
    /\ pc = [u \in Units |-> IF u = "A" THEN "new" ELSE "absent"]
    /\ ctxType["B"] = "http"
    /\ storeOf[<<"B", "root">>] = NoRec
    /\ routing["B"] = "named"
    /\ faults = TRUE
    /\ thrown = NotThrown
    /\ listeners = BootListeners

\* two overlapping units of work, against a backend that does not throw
InitPair ==
    /\ Fresh
    /\ pc = [u \in Units |-> "new"]
    /\ \A u \in Units : storeOf[<<u, "root">>] = NoRec
    /\ routing = [u \in Units |-> "named"]
    /\ faults = FALSE
    /\ thrown = NotThrown
    /\ listeners = BootListeners

----------------------------------------------------------------------------
\* ContextEstablisher, OpenTelemetry variant

\* otel.trace.getTracer() gives no tracer
NoTracer == <<"no", "tracer">>

\* the kind, parent context and attributes otelInstrumentation.create hands
\* to tracer.startSpan.
\*   type: context.getType(); r: the routing metadata
\*   req: context.switchToHttp().getRequest() ("ok", "throws")
\*   ex: otel.propagation.extract ("ok", "throws")
\*   c: trace id of the span tracer.startSpan then returned
startSpanOptions(type, r, req, ex, c) ==
    [kind |-> spanKind(type),
     parent |-> IF type = "http" /\ req = "ok" /\ ex = "ok"
                THEN "extracted" ELSE "active",
     http |-> IF type = "http" /\ req = "ok" THEN "read" ELSE "absent",
     rpcMethod |-> IF type # "rpc" \/ r = "throws" THEN "absent"
                   ELSE IF r = "named" THEN "handler" ELSE "Call",
     controller |-> IF r = "throws" THEN "absent"
                    ELSE IF r = "named" THEN "Controller" ELSE "Unknown",
     handler |-> IF r = "throws" THEN "absent"
                 ELSE IF r = "named" THEN "handler" ELSE "unknown",
     req |-> req, ex |-> ex, out |-> c]

\* a create whose extraction steps are not wrapped in try/catch
createThrowsOnExtraction(c, req, ex) ==
    c = Throw \/ req = "throws" \/ ex = "throws"

\* whether otelInstrumentation.create throws: only what is outside its inner
\* try blocks does (getTracer, getType, startSpan, spanContext); a throw of
\* the request access or of the header extraction is swallowed
createThrows(c, req, ex) == c = Throw

\* result of otelInstrumentation.create: the span started by tracer.startSpan
\* (never made the active span), or NoSpan when there is no tracer
create(u, c) ==
    IF c = NoTracer THEN NoSpan
    ELSE [ref |-> u, tid |-> c, kind |-> spanKind(ctxType[u])]

\* a guard that announces the span it found active as if it had started it
foundExistingAnnounced(evs, q) == Append(evs, Event("spanStarted", <<q, Ctx>>))

\* `if (traceId) return true`: a trace id q is current already, canActivate
\* returns at once and publishes nothing
foundExisting(evs, q) == evs

\* OtelContextGuard.canActivate from its call to `await setImmediate()`, or
\* to its return when the await is not reached.
\*   q: result of getCurrentTransactionId(); c: result of create()
canActivateOtel(u) ==
    /\ variant = "otel"
    /\ pc[u] = "new"
    /\ \E q \in Faulty({Throw}) \cup {Undefined, ExtTid},
          c \in Faulty({Throw}) \cup {NoTracer, Undefined, NewTid(u)},
          req \in Faulty({"throws"}) \cup {"ok"},
          ex \in Faulty({"throws"}) \cup {"ok"} :
        LET failed == q = Throw \/ (~truthy(q) /\ createThrows(c, req, ex))
            awaits == q # Throw /\ ~truthy(q) /\ ~createThrows(c, req, ex)
        IN  /\ opName' = [opName EXCEPT ![u] = getTransactionName(routing[u])]
            /\ estQuery' = [estQuery EXCEPT ![u] = q]
            /\ startError' = [startError EXCEPT ![u] =
                                IF q = Throw THEN "query"
                                ELSE IF failed THEN "create" ELSE "none"]
            /\ created' = IF awaits
                          THEN [created EXCEPT ![u] = create(u, c)]
                          ELSE created
            /\ spanOpts' = IF q # Throw /\ ~truthy(q) /\ c \notin {NoTracer, Throw}
                           THEN [spanOpts EXCEPT ![u] =
                                  startSpanOptions(ctxType[u], routing[u],
                                                   req, ex, c)]
                           ELSE spanOpts
            /\ events' = IF failed
                         THEN [events EXCEPT ![u] =
                                reportStartFailure(@, "spanStartFailed",
                                                   <<Err>>)]
                         ELSE IF truthy(q)
                         THEN [events EXCEPT ![u] = foundExisting(@, q)]
                         ELSE events
            /\ result' = IF awaits THEN result
                         ELSE [result EXCEPT ![u] =
                                leaves(failed, "spanStartFailed",
                                       returnValue(failed))]
            /\ pc' = [pc EXCEPT ![u] =
                        IF awaits THEN "yield"
                        ELSE IF failed /\ listenerThrows("spanStartFailed")
                        THEN "rejected" ELSE "guarded"]
            \* the continuation of canActivate and the continuation of the
            \* framework awaiting it are both created in the calling resource
            /\ storeOf' = propagate(propagate(storeOf, <<u, "root">>,
                                              <<u, "guard">>),
                                    <<u, "root">>, <<u, "caller">>)
    /\ UNCHANGED <<faults, listeners, routing, thrown, variant, ctxType, marker, captured,
                   wrapped, emitted, delivered, endLog, finLog, recorded>>

\* OtelContextGuard.canActivate after `await setImmediate()`
canActivateOtelResume(u) ==
    /\ variant = "otel"
    /\ pc[u] = "yield"
    /\ LET traceId == created[u].tid
           res == <<u, "guard">>
           \* the emit of 'spanStarted' is inside the try block
           failed == truthy(traceId) /\ listenerThrows("spanStarted")
       IN  /\ IF truthy(traceId)
              THEN /\ storeOf' = store(storeOf, res)
                   /\ marker' = setCustomTransactionId(storeOf, marker, res,
                                                       traceId, u)
                   /\ events' = [events EXCEPT ![u] =
                        LET evs == Append(@, Event("spanStarted",
                                                   <<traceId, Ctx>>))
                        IN  IF failed
                            THEN reportStartFailure(evs, "spanStartFailed",
                                                    <<ListenerErr>>)
                            ELSE evs]
              ELSE UNCHANGED <<storeOf, marker, events>>
           /\ startError' = IF failed
                            THEN [startError EXCEPT ![u] = "listener"]
                            ELSE startError
           /\ result' = [result EXCEPT ![u] =
                           leaves(failed, "spanStartFailed",
                                  returnValue(failed))]
           /\ pc' = [pc EXCEPT ![u] =
                       IF failed /\ listenerThrows("spanStartFailed")
                       THEN "rejected" ELSE "guarded"]
    /\ UNCHANGED <<faults, listeners, spanOpts, routing, opName, thrown, variant, ctxType, created, estQuery, captured, wrapped,
                   emitted, delivered, endLog, finLog, recorded>>

----------------------------------------------------------------------------
\* ContextEstablisher, New Relic variant

\* NewrelicContextGuard.canActivate (synchronous).
\*   q: first getTraceMetadata()?.traceId; s: startWebTransaction;
\*   a: acceptDistributedTraceHeaders; m: second getTraceMetadata()?.traceId
canActivateNewrelic(u) ==
    /\ variant = "newrelic"
    /\ pc[u] = "new"
    /\ LET transactionName == getTransactionNameNewrelic(routing[u])
       IN  IF transactionName = "throw"
           THEN \* the TypeError leaves canActivate: the guard raises
                /\ opName' = [opName EXCEPT ![u] = "none"]
                /\ result' = [result EXCEPT ![u] = "throw"]
                /\ pc' = [pc EXCEPT ![u] = "rejected"]
                /\ UNCHANGED <<estQuery, startError, created, marker, events,
                               storeOf>>
           ELSE
               \E q \in Faulty({Throw}) \cup {Undefined, ExtTid},
                  s \in Faulty({Throw}) \cup {NewTid(u)},
                  a \in Faulty({Throw}) \cup {Undefined},
                  m \in Faulty({Throw}) \cup {Undefined, NewTid(u)} :
                   LET res == <<u, "root">>
                       http == ctxType[u] = "http"
                       starts == q # Throw /\ ~truthy(q) /\ s # Throw
                       failed == \/ q = Throw
                                 \/ q # Throw /\ ~truthy(q) /\ s = Throw
                                 \/ starts /\ http /\ (a = Throw \/ m = Throw)
                       transactionId == IF starts /\ http /\ ~failed
                                        THEN m ELSE Undefined
                       \* the emit of 'transactionStarted' ends the try block
                       emitFailed == /\ starts /\ ~failed
                                     /\ listenerThrows("transactionStarted")
                       st1 == IF starts /\ ~failed /\ truthy(transactionId)
                              THEN store(storeOf, res) ELSE storeOf
                   IN  /\ opName' = [opName EXCEPT ![u] = transactionName]
                       /\ estQuery' = [estQuery EXCEPT ![u] = q]
                       /\ startError' = [startError EXCEPT ![u] =
                                           IF q = Throw THEN "query"
                                           ELSE IF emitFailed THEN "listener"
                                           ELSE IF ~failed THEN "none"
                                           ELSE IF s = Throw THEN "create"
                                           ELSE IF a = Throw THEN "headers"
                                           ELSE "metadata"]
                       /\ created' = IF starts
                                     THEN [created EXCEPT ![u] =
                                            [ref |-> u, tid |-> s, kind |-> "web"]]
                                     ELSE created
                       /\ marker' = IF starts /\ ~failed /\ truthy(transactionId)
                                    THEN setCustomTransactionId(storeOf, marker, res,
                                                                transactionId, u)
                                    ELSE marker
                       /\ events' =
                            IF failed
                            THEN [events EXCEPT ![u] =
                                   reportStartFailure(@, "transactionStartFailed",
                                                      <<Undefined, Err>>)]
                            ELSE IF starts
                            THEN [events EXCEPT ![u] =
                                   LET evs == Append(@,
                                         Event("transactionStarted",
                                               <<transactionId>>))
                                   IN  IF emitFailed
                                       THEN reportStartFailure(evs,
                                              "transactionStartFailed",
                                              <<transactionId, ListenerErr>>)
                                       ELSE evs]
                            ELSE events
                       \* the framework continues after the synchronous guard
                       /\ storeOf' = propagate(st1, res, <<u, "caller">>)
                       /\ result' = [result EXCEPT ![u] =
                                       leaves(failed \/ emitFailed,
                                              "transactionStartFailed",
                                              returnValue(failed \/ emitFailed))]
                       /\ pc' = [pc EXCEPT ![u] =
                                   IF /\ failed \/ emitFailed
                                      /\ listenerThrows("transactionStartFailed")
                                   THEN "rejected" ELSE "guarded"]
    /\ UNCHANGED <<faults, listeners, spanOpts, routing, thrown, variant, ctxType, captured, wrapped,
                   emitted, delivered, endLog, finLog, recorded>>

----------------------------------------------------------------------------
\* LifecycleFinalizer, OpenTelemetry variant

\* an intercept that pipes the stream through tap although no span is active
interceptOtelAlwaysWraps(u) ==
    /\ variant = "otel"
    /\ pc[u] = "guarded"
    /\ \E a \in Faulty({ThrowSpan}) \cup {NoSpan, ExtSpan(Undefined)}
                \cup ActiveChoices(u) :
        /\ pc' = [pc EXCEPT ![u] = IF a = ThrowSpan THEN "threw" ELSE "handling"]
        /\ captured' = IF a = ThrowSpan THEN captured
                       ELSE [captured EXCEPT ![u] = a]
        /\ wrapped' = [wrapped EXCEPT ![u] = a # ThrowSpan]
    /\ UNCHANGED <<faults, listeners, spanOpts, routing, opName, startError, thrown, variant, ctxType, storeOf, marker, created, estQuery,
                   result, emitted, delivered, endLog, finLog, recorded,
                   events>>

\* OtelInterceptor.intercept: the active span is captured when intercept is
\* called, before the handler body runs.
\*   a: result of otel.trace.getActiveSpan()
interceptOtel(u) ==
    /\ variant = "otel"
    /\ pc[u] = "guarded"
    /\ \E a \in Faulty({ThrowSpan}) \cup {NoSpan, ExtSpan(Undefined)}
                \cup ActiveChoices(u) :
        /\ pc' = [pc EXCEPT ![u] = IF a = ThrowSpan THEN "threw" ELSE "handling"]
        /\ captured' = IF a = ThrowSpan THEN captured
                       ELSE [captured EXCEPT ![u] = a]
        /\ wrapped' = [wrapped EXCEPT ![u] = a \notin {ThrowSpan, NoSpan}]
    /\ UNCHANGED <<faults, listeners, spanOpts, routing, opName, startError, thrown, variant, ctxType, storeOf, marker, created, estQuery,
                   result, emitted, delivered, endLog, finLog, recorded,
                   events>>

\* a span the handler body started under the captured one and left active
ChildSpan(span) == [ref |-> "child", tid |-> span.tid, kind |-> "INTERNAL"]

\* spans that can be active when the handler's outcome arrives: none, the one
\* captured by intercept, one the handler body started under it, or one of
\* another trace that became active during the handler body
OutcomeChoices(u) ==
    {NoSpan, captured[u], ChildSpan(captured[u]), ExtSpan(ExtTid)}

\* the next callback makes no call of getActiveSpan(): which span is active
\* at that moment is not observed
Unobserved == [ref |-> "unobserved", tid |-> Pending, kind |-> "none"]

\* trace id of the span that is active at a moment (a: NoSpan when none)
activeTid(a) == IF a = ThrowSpan THEN Throw ELSE a.tid

\* a finishSpan that publishes 'spanFinished' whatever the trace id is
finishSpanAlwaysPublishes(u, res, endThrows, a) ==
    LET span == captured[u]
        traceId == span.tid
        custom == getCustomTransactionId(storeOf, marker, res)
        ends == traceId = custom
        threw == ends /\ endThrows
        evs == IF threw THEN <<Event("spanFinishFailed", <<Err>>)>>
               ELSE <<Event("spanFinished", <<traceId>>)>>
    IN  [fin |-> [obs |-> traceId, now |-> activeTid(a), read |-> custom,
                  by |-> markerWriter(storeOf, marker, res),
                  span |-> span.ref, ended |-> ends, threw |-> threw,
                  pub |-> Len(evs),
                  steps |-> (IF ends THEN <<"end">> ELSE <<>>)
                            \o [k \in 1..Len(evs) |-> "emit"]],
         evs |-> evs]

\* OtelInterceptor.finishSpan(traceId, span), run in async resource res.
\*   endThrows: span.end() throws
\*   a: the span recordError found active just before, Unobserved after a
\*      value (finishSpan itself does not look)
\* What a 'spanFinished' listener throws lands in the same catch as a throw
\* of span.end(), which publishes 'spanFinishFailed'.
\* Gives the entry of finLog (pub: how many events this call published,
\* steps: the calls it made on the span and the emitter, in order) and the
\* events published.
finishSpan(u, res, endThrows, a) ==
    LET span == captured[u]
        traceId == span.tid
        custom == getCustomTransactionId(storeOf, marker, res)
        ends == traceId = custom
        threw == ends /\ endThrows
        evs == IF threw THEN <<Event("spanFinishFailed", <<Err>>)>>
               ELSE IF truthy(traceId)
               THEN <<Event("spanFinished", <<traceId>>)>>
                    \o (IF listenerThrows("spanFinished")
                        THEN <<Event("spanFinishFailed", <<ListenerErr>>)>>
                        ELSE <<>>)
               ELSE <<>>
    IN  [fin |-> [obs |-> traceId, now |-> activeTid(a), read |-> custom,
                  by |-> markerWriter(storeOf, marker, res),
                  span |-> span.ref, ended |-> ends, threw |-> threw,
                  pub |-> Len(evs),
                  steps |-> (IF ends THEN <<"end">> ELSE <<>>)
                            \o [k \in 1..Len(evs) |-> "emit"]],
         evs |-> evs]

\* a recording that acts on the span intercept captured
recordingSpanCaptured(span, r) == span

\* the span recordException and addAttributes act on: each calls
\* otel.trace.getActiveSpan() itself; the span intercept captured is not
\* handed to them
\*   span: the span captured by intercept, r: the span active at the call
recordingSpan(span, r) == r

\* OtelInterceptor.recordError(error): otelInstrumentation.recordException and
\* addAttributes look the active span up again and swallow what it throws.
\*   r: result of otel.trace.getActiveSpan() at that moment
recordError(r, recThrows, attrThrows) ==
    IF r \in {ThrowSpan, NoSpan} THEN <<>>
    ELSE <<[span |-> r.ref, exception |-> ~recThrows, attrs |-> ~attrThrows]>>

\* the calls recordError makes on the span that is active at that moment
recordSteps(r) ==
    IF r \in {ThrowSpan, NoSpan} THEN <<>>
    ELSE <<"recordException", "setAttributes">>

\* an error callback that finishes the span before it records the error
errorStepsFinishFirst(rec, fin) == fin \o <<"recordError">> \o rec

\* tap's error callback: this.recordError(error), then this.finishSpan(...)
errorSteps(rec, fin) == <<"recordError">> \o rec \o fin

\* a tap callback throws: the emit in the catch block of finishSpan is not
\* guarded, so what a 'spanFinishFailed' listener throws leaves the callback
escapes(evs) ==
    \E i \in DOMAIN evs :
        evs[i].name = "spanFinishFailed" /\ listenerThrows("spanFinishFailed")

\* what tap passes on to the subscriber for the notification n: n itself,
\* or the error its callback threw in place of n
passedOn(n, evs) == IF escapes(evs) THEN <<"error", ListenerErr>> ELSE n

\* the handler's stream emits a value; tap's next callback runs finishSpan
nextOtel(u) ==
    /\ variant = "otel"
    /\ pc[u] = "handling"
    /\ Len(emitted[u]) < MaxEmits
    /\ emitted' = [emitted EXCEPT ![u] = Append(@, <<"next", "V">>)]
    /\ IF wrapped[u]
       THEN \E endThrows \in Faulty({TRUE}) \cup {FALSE} :
              LET res == <<u, "caller">>
                  f == finishSpan(u, res, endThrows, Unobserved)
              IN  /\ delivered' = [delivered EXCEPT ![u] =
                                     Append(@, passedOn(<<"next", "V">>, f.evs))]
                  /\ pc' = IF escapes(f.evs)
                           THEN [pc EXCEPT ![u] = "done"] ELSE pc
                  /\ storeOf' = store(storeOf, res)
                  /\ finLog' = [finLog EXCEPT ![u] = Append(@, f.fin)]
                  /\ endLog' = IF f.fin.ended
                               THEN [endLog EXCEPT ![u] = Append(@, f.fin.span)]
                               ELSE endLog
                  /\ events' = [events EXCEPT ![u] = @ \o f.evs]
       ELSE /\ delivered' = [delivered EXCEPT ![u] = Append(@, <<"next", "V">>)]
            /\ UNCHANGED <<pc, storeOf, finLog, endLog, events>>
    /\ UNCHANGED <<faults, listeners, spanOpts, routing, opName, startError, thrown, variant, ctxType, marker, created, estQuery, result,
                   captured, wrapped, recorded>>

\* the handler's stream fails; tap's error callback runs recordError and
\* finishSpan, then the error goes on to the subscriber
errorOtel(u) ==
    /\ variant = "otel"
    /\ pc[u] = "handling"
    /\ Len(emitted[u]) < MaxEmits
    /\ emitted' = [emitted EXCEPT ![u] = Append(@, <<"error", "E">>)]
    /\ pc' = [pc EXCEPT ![u] = "done"]
    /\ IF wrapped[u]
       THEN \E endThrows \in Faulty({TRUE}) \cup {FALSE},
               recThrows \in Faulty({TRUE}) \cup {FALSE},
               attrThrows \in Faulty({TRUE}) \cup {FALSE},
               r \in Faulty({ThrowSpan}) \cup OutcomeChoices(u) :
              LET res == <<u, "caller">>
                  f == finishSpan(u, res, endThrows, r)
              IN  /\ delivered' = [delivered EXCEPT ![u] =
                                     Append(@, passedOn(<<"error", "E">>, f.evs))]
                  /\ recorded' = [recorded EXCEPT ![u] =
                                    @ \o recordError(recordingSpan(captured[u], r),
                                                   recThrows, attrThrows)]
                  /\ storeOf' = store(storeOf, res)
                  /\ finLog' = [finLog EXCEPT ![u] = Append(@,
                       [f.fin EXCEPT !.steps =
                          errorSteps(recordSteps(recordingSpan(captured[u], r)), @)])]
                  /\ endLog' = IF f.fin.ended
                               THEN [endLog EXCEPT ![u] = Append(@, f.fin.span)]
                               ELSE endLog
                  /\ events' = [events EXCEPT ![u] = @ \o f.evs]
       ELSE /\ delivered' = [delivered EXCEPT ![u] = Append(@, <<"error", "E">>)]
            /\ UNCHANGED <<storeOf, finLog, endLog, events, recorded>>
    /\ UNCHANGED <<faults, listeners, spanOpts, routing, opName, startError, thrown, variant, ctxType, marker, created, estQuery, result,
                   captured, wrapped>>

----------------------------------------------------------------------------
\* LifecycleFinalizer, New Relic variant

\* a pipeline that runs the interceptor without waiting for the guard
interceptNewrelicBeforeGuard(u) ==
    /\ variant = "newrelic"
    /\ pc[u] \in {"new", "guarded"}
    /\ pc' = [pc EXCEPT ![u] = "handling"]
    /\ wrapped' = [wrapped EXCEPT ![u] = TRUE]
    /\ UNCHANGED <<faults, listeners, spanOpts, routing, opName, startError, thrown, variant, ctxType, storeOf, marker, created, estQuery,
                   result, captured, emitted, delivered, endLog, finLog,
                   recorded, events>>

\* NewRelicInterceptor.intercept: always pipes the stream through tap
interceptNewrelic(u) ==
    /\ variant = "newrelic"
    /\ pc[u] = "guarded"
    /\ pc' = [pc EXCEPT ![u] = "handling"]
    /\ wrapped' = [wrapped EXCEPT ![u] = TRUE]
    /\ UNCHANGED <<faults, listeners, spanOpts, routing, opName, startError, thrown, variant, ctxType, storeOf, marker, created, estQuery,
                   result, captured, emitted, delivered, endLog, finLog,
                   recorded, events>>

\* a finishTransaction that ends the current transaction whatever the marker
finishTransactionAlwaysEnds(u, res, t, endThrows) ==
    LET customTransactionId == getCustomTransactionId(storeOf, marker, res)
    IN  [fin |-> [obs |-> IF t = ThrowSpan THEN Throw ELSE t.tid,
                  now |-> activeTid(t),
                  read |-> customTransactionId,
                  by |-> markerWriter(storeOf, marker, res),
                  span |-> t.ref,
                  ended |-> t # ThrowSpan, threw |-> t # ThrowSpan /\ endThrows,
                  pub |-> IF t = ThrowSpan THEN 0 ELSE 1,
                  steps |-> IF t = ThrowSpan THEN <<>> ELSE <<"emit", "end">>],
         evs |-> IF t = ThrowSpan THEN <<>>
                 ELSE <<Event("transactionFinished", <<t.tid>>)>>]

\* a finishTransaction that returns before the emit when there is no trace id
finishTransactionSkipsAbsent(u, res, t, endThrows) ==
    LET customTransactionId == getCustomTransactionId(storeOf, marker, res)
        transactionId == t.tid
        absent == t = ThrowSpan \/ ~truthy(transactionId)
        skip == truthy(customTransactionId)
                /\ transactionId # customTransactionId
        ends == ~absent /\ ~skip
    IN  [fin |-> [obs |-> IF t = ThrowSpan THEN Throw ELSE transactionId,
                  now |-> activeTid(t),
                  read |-> customTransactionId,
                  by |-> markerWriter(storeOf, marker, res),
                  span |-> t.ref,
                  ended |-> ends, threw |-> ends /\ endThrows,
                  pub |-> IF absent THEN 0 ELSE 1,
                  steps |-> (IF absent THEN <<>> ELSE <<"emit">>)
                            \o (IF ends THEN <<"end">> ELSE <<>>)],
         evs |-> IF absent THEN <<>>
                 ELSE <<Event("transactionFinished", <<transactionId>>)>>]

\* a finishTransaction that ends only the transaction whose id is the marker
finishTransactionOwnedOnly(u, res, t, endThrows) ==
    LET customTransactionId == getCustomTransactionId(storeOf, marker, res)
        transactionId == t.tid
        ends == t # ThrowSpan /\ transactionId = customTransactionId
    IN  [fin |-> [obs |-> IF t = ThrowSpan THEN Throw ELSE transactionId,
                  now |-> activeTid(t),
                  read |-> customTransactionId,
                  by |-> markerWriter(storeOf, marker, res),
                  span |-> t.ref,
                  ended |-> ends, threw |-> ends /\ endThrows,
                  pub |-> IF t = ThrowSpan THEN 0 ELSE 1,
                  steps |-> (IF t = ThrowSpan THEN <<>> ELSE <<"emit">>)
                            \o (IF ends THEN <<"end">> ELSE <<>>)],
         evs |-> IF t = ThrowSpan THEN <<>>
                 ELSE <<Event("transactionFinished", <<transactionId>>)>>]

\* NewRelicInterceptor.finishTransaction, run in async resource res.
\*   t: current transaction as getTraceMetadata() shows it, or Throw
\*   endThrows: endTransaction() throws (swallowed by the empty catch, as
\*   is what a 'transactionFinished' listener throws, before the end call)
finishTransaction(u, res, t, endThrows) ==
    LET customTransactionId == getCustomTransactionId(storeOf, marker, res)
        transactionId == t.tid
        skip == truthy(customTransactionId)
                /\ transactionId # customTransactionId
        emitThrows == t # ThrowSpan /\ listenerThrows("transactionFinished")
        ends == t # ThrowSpan /\ ~skip /\ ~emitThrows
    IN  [fin |-> [obs |-> IF t = ThrowSpan THEN Throw ELSE transactionId,
                  now |-> activeTid(t),
                  read |-> customTransactionId,
                  by |-> markerWriter(storeOf, marker, res),
                  span |-> t.ref,
                  ended |-> ends, threw |-> ends /\ endThrows,
                  pub |-> IF t = ThrowSpan THEN 0 ELSE 1,
                  steps |-> (IF t = ThrowSpan THEN <<>> ELSE <<"emit">>)
                            \o (IF ends THEN <<"end">> ELSE <<>>)],
         evs |-> IF t = ThrowSpan THEN <<>>
                 ELSE <<Event("transactionFinished", <<transactionId>>)>>]

\* a value or an error from the handler's stream; tap runs finishTransaction
\* for both and passes the notification on
outcomeNewrelic(u) ==
    /\ variant = "newrelic"
    /\ pc[u] = "handling"
    /\ Len(emitted[u]) < MaxEmits
    /\ \E n \in {<<"next", "V">>, <<"error", "E">>},
          t \in Faulty({ThrowSpan}) \cup {NoSpan} \cup ActiveChoices(u),
          endThrows \in Faulty({TRUE}) \cup {FALSE} :
        LET res == <<u, "caller">>
            f == finishTransaction(u, res, t, endThrows)
        IN  /\ emitted' = [emitted EXCEPT ![u] = Append(@, n)]
            /\ delivered' = [delivered EXCEPT ![u] = Append(@, n)]
            /\ pc' = [pc EXCEPT ![u] = IF n[1] = "error" THEN "done" ELSE @]
            /\ storeOf' = store(storeOf, res)
            /\ finLog' = [finLog EXCEPT ![u] = Append(@, f.fin)]
            /\ endLog' = IF f.fin.ended
                         THEN [endLog EXCEPT ![u] = Append(@, f.fin.span)]
                         ELSE endLog
            /\ events' = [events EXCEPT ![u] = @ \o f.evs]
    /\ UNCHANGED <<faults, listeners, spanOpts, routing, opName, startError, thrown, variant, ctxType, marker, created, estQuery, result,
                   captured, wrapped, recorded>>

----------------------------------------------------------------------------
\* a tap that also finalizes when the stream completes
completeFinalizes(u) ==
    /\ pc[u] = "handling"
    /\ pc' = [pc EXCEPT ![u] = "done"]
    /\ endLog' = IF wrapped[u]
                 THEN [endLog EXCEPT ![u] = Append(@, captured[u].ref)]
                 ELSE endLog
    /\ UNCHANGED <<faults, listeners, spanOpts, routing, opName, startError, thrown, variant, ctxType, storeOf, marker, created, estQuery,
                   result, captured, wrapped, emitted, delivered,
                   finLog, recorded, events>>

\* the handler's stream completes, or the unit of work is abandoned: tap
\* was given a next and an error callback only, so nothing runs
complete(u) ==
    /\ pc[u] = "handling"
    /\ pc' = [pc EXCEPT ![u] = "done"]
    /\ UNCHANGED <<faults, listeners, spanOpts, routing, opName, startError, thrown, variant, ctxType, storeOf, marker, created, estQuery,
                   result, captured, wrapped, emitted, delivered, endLog,
                   finLog, recorded, events>>

Next ==
    \E u \in Units :
        \/ canActivateOtel(u)
        \/ canActivateOtelResume(u)
        \/ canActivateNewrelic(u)
        \/ interceptOtel(u)
        \/ nextOtel(u)
        \/ errorOtel(u)
        \/ interceptNewrelic(u)
        \/ outcomeNewrelic(u)
        \/ complete(u)

\* an interceptor holding an emitter of its own: what it publishes reaches
\* no listener registered through the event service
DispatchGuardOnly ==
    calls' = [u \in Units |->
                calls[u] \o
                SelectSeq(emitAll(listeners, events'[u], Len(events[u]) + 1),
                          LAMBDA c : c.name \in
                              {"spanStarted", "spanStartFailed",
                               "transactionStarted",
                               "transactionStartFailed"})]

\* the guard, the interceptor and the event service are given the one
\* emitter the module provides: the listener calls the emits of a step make
Dispatch ==
    calls' = [u \in Units |->
                calls[u] \o emitAll(listeners, events'[u], Len(events[u]) + 1)]

Step == Next /\ Dispatch

Spec == Init /\ [][Step]_vars

SpecPair == InitPair /\ [][Step]_vars

\* the kinds of lifecycle event, and the event names of a kind
EventKinds == {"started", "startFailed", "finished", "finishFailed"}

KindOf(name) ==
    IF name \in {"spanStarted", "transactionStarted"} THEN "started"
    ELSE IF name \in {"spanStartFailed", "transactionStartFailed"}
    THEN "startFailed"
    ELSE IF name \in {"spanFinished", "transactionFinished"} THEN "finished"
    ELSE "finishFailed"

\* an application whose first listener of every event of a kind in S
\* throws, followed by a second listener that does not
ListenersThrowing(S) ==
    LET names == << "spanStarted", "transactionStarted", "spanStartFailed",
                    "transactionStartFailed", "spanFinished",
                    "transactionFinished", "spanFinishFailed",
                    "transactionFinishFailed" >>
    IN  [i \in 1..(2 * Len(names)) |->
            LET name == names[(i + 1) \div 2]
            IN  IF i % 2 = 1 /\ KindOf(name) \in S
                THEN ThrowingRegistration(name, "L1")
                ELSE Registration(name, IF i % 2 = 1 THEN "L1" ELSE "L2")]

\* one unit of work, a backend that does not throw, listeners that may
InitListeners ==
    /\ Fresh
    /\ pc = [u \in Units |-> IF u = "A" THEN "new" ELSE "absent"]
    /\ ctxType["B"] = "http"
    /\ storeOf[<<"B", "root">>] = NoRec
    /\ routing = [u \in Units |-> "named"]
    /\ faults = FALSE
    /\ thrown = NotThrown
    /\ listeners \in {ListenersThrowing(S) : S \in SUBSET EventKinds}

SpecListeners == InitListeners /\ [][Step]_vars

\* the handler body of unit u starts unit v inside itself (a message
\* dispatched in process, a second pipeline run): the first resource of v
\* is created in the resource the handler of u runs in and carries its store
nest(u, v) ==
    /\ u # v
    /\ pc[u] = "handling"
    /\ emitted[u] = <<>>
    /\ pc[v] = "absent"
    /\ pc' = [pc EXCEPT ![v] = "new"]
    /\ storeOf' = propagate(storeOf, <<u, "caller">>, <<v, "root">>)
    /\ UNCHANGED <<variant, ctxType, marker, created, estQuery, result,
                   captured, wrapped, emitted, delivered, endLog, finLog,
                   recorded, events, startError, routing, opName, spanOpts,
                   thrown, faults, listeners>>

\* one unit of work whose handler may start a second one inside itself,
\* against a backend that does not throw
InitNested ==
    /\ Fresh
    /\ pc = [u \in Units |-> IF u = "A" THEN "new" ELSE "absent"]
    /\ ctxType["B"] = ctxType["A"]
    /\ storeOf[<<"B", "root">>] = NoRec
    /\ routing = [u \in Units |-> "named"]
    /\ faults = FALSE
    /\ thrown = NotThrown
    /\ listeners = BootListeners

NextNested ==
    \/ Next
    \/ nest("A", "B")

SpecNested == InitNested /\ [][NextNested /\ Dispatch]_vars

\* OtelInterceptor.recordError(error) as a whole, for the value in thrown:
\* the catch publishes 'spanFinishFailed' when String(error) throws
recordErrorCall ==
    /\ ~thrown.done
    /\ thrown.value # NoValue
    /\ LET error == thrown.value
       IN  thrown' =
             [thrown EXCEPT
                !.arg = IF throwsBeforeRecord(error) THEN NoValue
                        ELSE recordedException(error),
                !.attrs = IF throwsBeforeAttributes(error) THEN NoAttrs
                          ELSE errorAttributes(error),
                !.reported = throwsBeforeAttributes(error),
                !.done = TRUE]
    /\ UNCHANGED <<variant, ctxType, pc, storeOf, marker, created, estQuery,
                   result, captured, wrapped, emitted, delivered, endLog,
                   finLog, recorded, events, startError, routing, opName,
                   spanOpts, faults, listeners, calls>>

NextRecord == recordErrorCall

SpecRecord == InitRecord /\ [][NextRecord]_vars

\* the event service and its emitter alone: listeners are registered and
\* events published in any order
BusNames == {"spanStarted", "spanFinished"}

InitBus ==
    /\ Fresh
    /\ variant = "otel"
    /\ ctxType = [u \in Units |-> "http"]
    /\ storeOf = [r \in Resources |-> NoRec]
    /\ pc = [u \in Units |-> "absent"]
    /\ routing = [u \in Units |-> "named"]
    /\ faults = FALSE
    /\ thrown = NotThrown
    /\ listeners = <<>>

\* OtelNestjsEvent.on(event, listener)
on(name, id) ==
    /\ Len(listeners) < MaxListeners
    /\ listeners' = Append(listeners, Registration(name, id))
    /\ UNCHANGED <<variant, ctxType, pc, storeOf, marker, created, estQuery,
                   result, captured, wrapped, emitted, delivered, endLog,
                   finLog, recorded, events, startError, routing, opName,
                   spanOpts, thrown, faults, calls>>

\* eventEmitter.emit(name, traceId) made on behalf of unit "A"
publish(name) ==
    /\ Len(events["A"]) < MaxPublishes
    /\ events' = [events EXCEPT !["A"] = Append(@, Event(name, <<NewTid("A")>>))]
    /\ Dispatch
    /\ UNCHANGED <<variant, ctxType, pc, storeOf, marker, created, estQuery,
                   result, captured, wrapped, emitted, delivered, endLog,
                   finLog, recorded, startError, routing, opName,
                   spanOpts, thrown, faults, listeners>>

NextBus ==
    \/ \E name \in BusNames, id \in ListenerIds : on(name, id)
    \/ \E name \in BusNames : publish(name)

SpecBus == InitBus /\ [][NextBus]_vars

----------------------------------------------------------------------------
\* Properties

\* canActivate of unit u has returned
Guarded(u) == pc[u] \in {"guarded", "handling", "done", "threw"}

\* the values the establisher of u has stored as ownership marker
MarkerStoredBy(u) == {marker[r].val : r \in {x \in Records : marker[x].by = u}}

\* positions of the events named in names that unit u published
EventsNamed(u, names) == {i \in DOMAIN events[u] : events[u][i].name \in names}

StartedNames == {"spanStarted", "transactionStarted"}
StartFailedNames == {"spanStartFailed", "transactionStartFailed"}
FinishedNames == {"spanFinished", "transactionFinished"}

\* C1: a unit whose establisher created a span with trace id T and stored T
\* as marker, and whose finalizer observes T on the single outcome, has had
\* end called exactly once, on that span.
C1_OwnedSpanEndedOnce ==
    \A u \in Units :
        LET T == created[u].tid
        IN  ( /\ T # Undefined
              /\ T \in MarkerStoredBy(u)
              /\ Len(emitted[u]) = 1
              /\ Len(finLog[u]) = 1
              /\ finLog[u][1].obs = T )
            => endLog[u] = <<u>>

\* C2 as stated: in both variants no end call is made when the identity the
\* finalizer observes differs from the marker of the unit, an unset marker
\* included.
C2_NoEndOnMismatch ==
    \A u \in Units : \A i \in DOMAIN finLog[u] :
        finLog[u][i].obs # finLog[u][i].read => ~finLog[u][i].ended

\* C2 amended: no end call is made when the observed identity differs from
\* the marker, except that the New Relic finalizer does call endTransaction
\* when the marker is unset.
C2_NoEndOnMismatchUnlessUnsetNewrelic ==
    \A u \in Units : \A i \in DOMAIN finLog[u] :
        ( /\ finLog[u][i].obs # finLog[u][i].read
          /\ ~(variant = "newrelic" /\ finLog[u][i].read = Undefined) )
        => ~finLog[u][i].ended

\* C2 witness: a finalizer saw an identity other than the marker that is set
\* and made no end call, and this in the New Relic variant.
C2_Witness ==
    \E u \in Units : \E i \in DOMAIN finLog[u] :
        /\ variant = "newrelic"
        /\ finLog[u][i].read = NewTid(u)
        /\ finLog[u][i].obs = ExtTid
        /\ ~finLog[u][i].ended

\* C3: once the outcome stream of a unit that owns a span (created it and
\* stored its marker) has delivered an outcome and terminated, the span has
\* been ended.
C3_OwnedSpanEnded ==
    \A u \in Units :
        ( /\ pc[u] = "done"
          /\ Len(emitted[u]) > 0
          /\ created[u] # NoSpan
          /\ created[u].tid \in MarkerStoredBy(u) )
        => \E i \in DOMAIN endLog[u] : endLog[u][i] = u

\* C4: the marker the establisher of a unit stored is the value every read
\* of the finalizer of that unit returns.
C4_MarkerVisibleToFinalizer ==
    \A u \in Units : \A i \in DOMAIN finLog[u] :
        MarkerStoredBy(u) # {} => finLog[u][i].read \in MarkerStoredBy(u)

\* C5: with two units in flight, the finalizer of a unit reads either no
\* marker or the marker its own establisher wrote, never one written by the
\* other unit; no async resource of a unit carries a store object of the
\* other unit, and a unit never calls end on the span of the other.
C5_PerChainIsolation ==
    /\ \A u \in Units : \A i \in DOMAIN finLog[u] :
          /\ finLog[u][i].by \in {u, "nobody"}
          /\ finLog[u][i].read \in {Undefined, NewTid(u)}
    /\ \A r \in Resources : storeOf[r] # NoRec => storeOf[r][1] = r[1]
    /\ \A r \in Records : marker[r].by \in {"nobody", r[1]}
    /\ \A u \in Units : \A i \in DOMAIN endLog[u] : endLog[u][i] \notin Units \ {u}

\* C5 witness: a finalizer has read the marker of its own unit while the
\* other unit, which has stored a marker of its own, is still in flight.
C5_Witness ==
    \E u \in Units : \E v \in Units \ {u} :
        /\ finLog[u] # <<>>
        /\ finLog[u][1].by = u
        /\ finLog[u][1].read = NewTid(u)
        /\ NewTid(v) \in MarkerStoredBy(v)
        /\ pc[v] = "handling"

\* C6: the subscriber of the wrapped stream receives exactly the
\* notifications of the handler, and intercept never fails in their place.
C6_OutcomeTransparent ==
    \A u \in Units : pc[u] # "threw" /\ delivered[u] = emitted[u]

\* C7: canActivate returns true, whatever the tracing backend does, once
\* the operation name has been computed from the routing metadata.
C7_AlwaysContinue ==
    \A u \in Units :
        opName[u] # "none"
        => /\ result[u] \in {"pending", "true"}
           /\ Guarded(u) => result[u] = "true"

\* C7 witness: canActivate returned true after it published a start failure.
C7_Witness ==
    \E u \in Units :
        /\ result[u] = "true"
        /\ EventsNamed(u, StartFailedNames) # {}

C9_OwnershipRecorded ==
    \A u \in Units :
        ( /\ Guarded(u)
          /\ estQuery[u] = Undefined
          /\ created[u] # NoSpan
          /\ created[u].tid # Undefined
          /\ EventsNamed(u, StartFailedNames) = {} )
        => /\ MarkerStoredBy(u) = {created[u].tid}
           /\ Cardinality(EventsNamed(u, StartedNames)) = 1
           /\ \A i \in EventsNamed(u, StartedNames) :
                events[u][i].args[1] = created[u].tid

\* C10: for every trace id T, the unit has published as many finished
\* events with payload T as its finalizer has observed outcomes with
\* captured identity T.
C10_FinishedOnEveryOutcome ==
    \A u \in Units : \A T \in {NewTid(u), ExtTid} :
        Cardinality({i \in DOMAIN finLog[u] : finLog[u][i].obs = T})
        = Cardinality({i \in EventsNamed(u, FinishedNames) :
                          events[u][i].args = <<T>>})

FinishFailedNames == {"spanFinishFailed", "transactionFinishFailed"}

\* intercept of unit u has returned the outcome stream
Intercepted(u) == pc[u] \in {"handling", "done"}

\* C11 as stated: when no span/transaction is active as the finalizer is
\* invoked, in both variants no end call is made, no event is published and
\* the outcome passes through unmodified.
C11_NoSpanSkipsFinalization ==
    \A u \in Units :
        /\ ( variant = "otel" /\ Intercepted(u) /\ captured[u] = NoSpan )
           => /\ finLog[u] = <<>>
              /\ endLog[u] = <<>>
              /\ EventsNamed(u, FinishedNames \cup FinishFailedNames) = {}
              /\ delivered[u] = emitted[u]
        /\ \A i \in DOMAIN finLog[u] :
              finLog[u][i].span = "none"
              => /\ ~finLog[u][i].ended
                 /\ finLog[u][i].pub = 0
                 /\ delivered[u] = emitted[u]

\* C11 amended: with no active span at intercept the OpenTelemetry finalizer
\* is skipped entirely (no end call, no event); the New Relic finalizer
\* publishes one 'transactionFinished' with payload undefined and calls
\* endTransaction() unless a marker is set; in both the outcome passes
\* through unmodified.
C11_NoSpanSkipsOtelOnly ==
    \A u \in Units :
        /\ ( variant = "otel" /\ Intercepted(u) /\ captured[u] = NoSpan )
           => /\ finLog[u] = <<>>
              /\ endLog[u] = <<>>
              /\ EventsNamed(u, FinishedNames \cup FinishFailedNames) = {}
              /\ delivered[u] = emitted[u]
        /\ \A i \in DOMAIN finLog[u] :
              finLog[u][i].span = "none"
              => /\ variant = "newrelic"
                 /\ finLog[u][i].obs = Undefined
                 /\ finLog[u][i].pub = 1
                 /\ finLog[u][i].ended <=> finLog[u][i].read = Undefined
                 /\ \E j \in EventsNamed(u, {"transactionFinished"}) :
                       events[u][j].args = <<Undefined>>
                 /\ delivered[u] = emitted[u]

\* C11 witness: an OpenTelemetry unit whose intercept found no active span
\* has delivered an outcome of its handler.
C11_Witness ==
    \E u \in Units :
        /\ variant = "otel"
        /\ captured[u] = NoSpan
        /\ pc[u] = "done"
        /\ delivered[u] # <<>>

\* C12 as stated: New Relic variant; when getTraceMetadata() gives no trace
\* id at outcome time, the finalizer publishes 'transactionFinished' with
\* payload undefined and calls endTransaction().
C12_AbsentTraceFinishedAndEnded ==
    \A u \in Units : \A i \in DOMAIN finLog[u] :
        ( variant = "newrelic" /\ finLog[u][i].obs = Undefined )
        => /\ finLog[u][i].pub = 1
           /\ Cardinality({j \in EventsNamed(u, {"transactionFinished"}) :
                              events[u][j].args = <<Undefined>>})
              = Cardinality({k \in DOMAIN finLog[u] :
                              finLog[u][k].obs = Undefined})
           /\ finLog[u][i].ended

\* C12 amended: with no trace id at outcome time the New Relic finalizer
\* publishes 'transactionFinished' with payload undefined, and calls
\* endTransaction() exactly when no marker is set.
C12_AbsentTraceFinishedEndedIfUnset ==
    \A u \in Units : \A i \in DOMAIN finLog[u] :
        ( variant = "newrelic" /\ finLog[u][i].obs = Undefined )
        => /\ finLog[u][i].pub = 1
           /\ Cardinality({j \in EventsNamed(u, {"transactionFinished"}) :
                              events[u][j].args = <<Undefined>>})
              = Cardinality({k \in DOMAIN finLog[u] :
                              finLog[u][k].obs = Undefined})
           /\ finLog[u][i].ended = ~truthy(finLog[u][i].read)

\* C12 witness: a New Relic finalizer that saw no trace id and no marker has
\* published the event with undefined and called endTransaction().
C12_Witness ==
    \E u \in Units : \E i \in DOMAIN finLog[u] :
        /\ variant = "newrelic"
        /\ finLog[u][i].obs = Undefined
        /\ finLog[u][i].read = Undefined
        /\ finLog[u][i].ended
        /\ \E j \in EventsNamed(u, {"transactionFinished"}) :
              events[u][j].args = <<Undefined>>

C14_StartFailureReported ==
    \A u \in Units :
        ( Guarded(u) /\ startError[u] # "none" )
        => /\ Cardinality(EventsNamed(u, StartFailedNames)) = 1
           /\ \A i \in EventsNamed(u, StartFailedNames) :
                 \E k \in DOMAIN events[u][i].args :
                    events[u][i].args[k] = Err
           /\ EventsNamed(u, StartedNames) = {}
           /\ result[u] = "true"

\* C14 witness: creating the span/transaction threw after a query that found
\* no active trace, and canActivate has returned.
C14_Witness ==
    \E u \in Units :
        /\ Guarded(u)
        /\ estQuery[u] = Undefined
        /\ startError[u] = "create"
        /\ EventsNamed(u, StartFailedNames) # {}

\* C15: in both variants, for every end call of the finalizer that threw,
\* a finish-failed event carrying the error has been published, and the
\* subscriber has received the notifications of the handler unchanged.
C15_EndFailureReported ==
    \A u \in Units :
        LET endThrew == {i \in DOMAIN finLog[u] : finLog[u][i].threw}
            failed == {j \in EventsNamed(u, FinishFailedNames) :
                         \E k \in DOMAIN events[u][j].args :
                            events[u][j].args[k] = Err}
        IN  /\ Cardinality(failed) = Cardinality(endThrew)
            /\ endThrew # {} => delivered[u] = emitted[u]

\* C16: OpenTelemetry variant; when recording the handler's error on the
\* span threw (span.recordException or span.setAttributes), the finalizer
\* has published a 'spanFinishFailed' event for that failure, besides those
\* for end calls that threw, and has still run finishSpan on the error
\* outcome (ownership check, end, 'spanFinished').
C16_RecordFailureReported ==
    \A u \in Units :
        LET endThrew == {i \in DOMAIN finLog[u] : finLog[u][i].threw}
            broken == {i \in DOMAIN recorded[u] :
                         ~recorded[u][i].exception \/ ~recorded[u][i].attrs}
        IN  ( variant = "otel" /\ broken # {} )
            => /\ Cardinality(EventsNamed(u, {"spanFinishFailed"}))
                    > Cardinality(endThrew)
               /\ Len(finLog[u]) = Len(emitted[u])
               /\ delivered[u] = emitted[u]

\* positions in a step log of the steps named in names
Positions(st, names) == {k \in DOMAIN st : st[k] \in names}

C18_ErrorNormalised ==
    thrown.done
    => LET e == thrown.value
           own(f) == e.isError /\ f # Undefined /\ f # Str("")
       IN  /\ thrown.arg.isError
           /\ e.isError => thrown.arg = e
           /\ ~e.isError => thrown.arg.message = e.str
           /\ thrown.attrs.name =
                 IF own(e.name) THEN e.name ELSE Str("UnknownError")
           /\ thrown.attrs.message =
                 IF own(e.message) THEN e.message ELSE e.str
           /\ thrown.attrs.stack =
                 IF own(e.stack) THEN e.stack
                 ELSE Str("No stack trace available")

\* C18 amended: the same for every thrown value whose string form, where
\* recordError needs it (the value is not an Error, or its message is
\* missing or empty), can be computed; when String(value) throws, no
\* attribute is set, a value that is not an Error is not recorded at all,
\* and 'spanFinishFailed' is published.
C18_ErrorNormalisedIfStringable ==
    thrown.done
    => LET e == thrown.value
           own(f) == e.isError /\ f # Undefined /\ f # Str("")
           needsString == ~own(e.message)
       IN  IF needsString /\ e.str = Throw
           THEN /\ thrown.attrs = NoAttrs
                /\ thrown.reported
                /\ thrown.arg = IF e.isError THEN e ELSE NoValue
           ELSE /\ ~thrown.reported
                /\ thrown.arg.isError
                /\ e.isError => thrown.arg = e
                /\ ~e.isError => thrown.arg.message = e.str
                /\ thrown.attrs.name =
                      IF own(e.name) THEN e.name ELSE Str("UnknownError")
                /\ thrown.attrs.message =
                      IF own(e.message) THEN e.message ELSE e.str
                /\ thrown.attrs.stack =
                      IF own(e.stack) THEN e.stack
                      ELSE Str("No stack trace available")

\* C18 witness: a value that is not an Error but has name, message and
\* stack fields of its own has been recorded as a new Error of its string
\* form, with the three fallbacks as attributes.
C18_Witness ==
    /\ thrown.done
    /\ ~thrown.value.isError
    /\ thrown.value.name = Str("name")
    /\ thrown.value.message = Str("message")
    /\ thrown.value.stack = Str("stack")
    /\ thrown.arg.isError /\ thrown.arg.message = Str("text")
    /\ thrown.attrs = [name |-> Str("UnknownError"), message |-> Str("text"),
                       stack |-> Str("No stack trace available")]

\* C19: the identity the finalizer compares with the marker and reports in
\* the finished event is the identity of the span that is active when the
\* outcome arrives, wherever that moment was observed.
C19_CapturedAtOutcome ==
    \A u \in Units : \A i \in DOMAIN finLog[u] :
        finLog[u][i].now \notin {Throw, Pending}
        => finLog[u][i].obs = finLog[u][i].now

\* the fixed names getTransactionName falls back to
Placeholders == {"UnknownController.unknownMethod", "UnknownTransaction"}

\* C20: once canActivate has been entered, the operation name is
\* '<ControllerName>.<handlerName>' when the routing metadata has names and
\* a fixed placeholder when reading it throws or gives no name; canActivate
\* does not raise, and returns true.
C20_NameNeverFailsEstablishment ==
    \A u \in Units :
        pc[u] \notin {"absent", "new"}
        => /\ pc[u] # "rejected"
           /\ result[u] # "throw"
           /\ routing[u] = "named" => opName[u] = "Controller.handler"
           /\ routing[u] # "named" => opName[u] \in Placeholders
           /\ Guarded(u) => result[u] = "true"

C22_BestEffortExtraction ==
    \A u \in Units :
        LET o == spanOpts[u]
            reqThrew == ctxType[u] = "http" /\ o.req = "throws"
            exThrew == ctxType[u] = "http" /\ o.req = "ok" /\ o.ex = "throws"
            attrThrew == routing[u] = "throws"
        IN  ( /\ variant = "otel"
              /\ Guarded(u)
              /\ o # NoOpts
              /\ truthy(o.out)
              /\ reqThrew \/ exThrew \/ attrThrew )
            => /\ created[u].ref = u
               /\ created[u].tid = o.out
               /\ MarkerStoredBy(u) = {created[u].tid}
               /\ Cardinality(EventsNamed(u, {"spanStarted"})) = 1
               /\ \A i \in EventsNamed(u, {"spanStarted"}) :
                     events[u][i].args[1] = created[u].tid
               /\ EventsNamed(u, StartFailedNames) = {}
               /\ result[u] = "true"
               /\ (reqThrew \/ exThrew) => o.parent = "active"
               /\ reqThrew => o.http = "absent"
               /\ attrThrew => /\ o.controller = "absent"
                               /\ o.handler = "absent"
                               /\ o.rpcMethod = "absent"

\* C22 witness: the request access threw for an http unit, and the guard
\* has published 'spanStarted' and returned.
C22_Witness ==
    \E u \in Units :
        /\ variant = "otel"
        /\ ctxType[u] = "http"
        /\ spanOpts[u].req = "throws"
        /\ Guarded(u)
        /\ EventsNamed(u, {"spanStarted"}) # {}

\* the listener calls the unit's k-th emit made, in the order made
CallsOf(u, k) == SelectSeq(calls[u], LAMBDA c : c.pub = k)

\* C23: at every moment, each emit made so far has called exactly the
\* listeners that were registered for its event name when it was made, one
\* call per registration, in registration order, with the emitted
\* arguments; registrations for other names were not called, and the calls
\* of an earlier emit all precede those of a later one.
C23_DeliveryOrder ==
    \A u \in Units :
        /\ \A k \in 1..Len(events[u]) :
              LET ev == events[u][k]
                  expected == {r \in 1..ev.at : listeners[r].name = ev.name}
                  got == CallsOf(u, k)
              IN  /\ Len(got) = Cardinality(expected)
                  /\ \A j \in 1..Len(got) :
                        /\ got[j].reg \in expected
                        /\ got[j].id = listeners[got[j].reg].id
                        /\ got[j].name = ev.name
                        /\ got[j].args = ev.args
                  /\ \A i, j \in 1..Len(got) : i < j => got[i].reg < got[j].reg
        /\ \A i, j \in 1..Len(calls[u]) :
              i < j => calls[u][i].pub <= calls[u][j].pub

\* C23 witness: an event was published while one listener was registered
\* twice for its name and another listener for a different name; the first
\* listener has been called twice for that publish.
C23_Witness ==
    \E k \in 1..Len(events["A"]) :
        /\ events["A"][k].at = 3
        /\ \E a, b, c \in 1..3 :
              /\ a < b
              /\ listeners[a] = listeners[b]
              /\ listeners[a].name = events["A"][k].name
              /\ listeners[c].name # events["A"][k].name
        /\ Len(CallsOf("A", k)) = 2

\* C24: for every unit of work, every event the guard or the interceptor
\* has published has called every listener registered for its name through
\* the event service.
C24_SharedEmitter ==
    \A u \in Units : \A k \in 1..Len(events[u]) :
        \A r \in 1..Len(listeners) :
            listeners[r].name = events[u][k].name
            => \E j \in 1..Len(calls[u]) :
                  /\ calls[u][j].pub = k
                  /\ calls[u][j].reg = r
                  /\ calls[u][j].id = listeners[r].id
                  /\ calls[u][j].args = events[u][k].args

\* C24 witness: two units of work overlap; the guard of each has published
\* its start event and the interceptor of each its finish event, and the
\* listeners have been called for all four.
C24_Witness ==
    /\ \A u \in Units :
          /\ EventsNamed(u, StartedNames) # {}
          /\ EventsNamed(u, FinishedNames) # {}
          /\ \E i, j \in 1..Len(calls[u]) :
                /\ calls[u][i].name \in StartedNames
                /\ calls[u][j].name \in FinishedNames
                /\ calls[u][j].id = "L2"

\* the listener calls made for the unit's events of the given names
CallsNamed(u, names) == {j \in 1..Len(calls[u]) : calls[u][j].name \in names}

\* C25: every listener call for 'spanFinishFailed' or
\* 'transactionFinishFailed' has two arguments: the trace id of the unit of
\* work whose finalization failed, then the error.
C25_FinishFailurePayload ==
    \A u \in Units : \A j \in CallsNamed(u, FinishFailedNames) :
        /\ Len(calls[u][j].args) = 2
        /\ calls[u][j].args[1] = captured[u].tid
        /\ calls[u][j].args[2] = Err

C27_NoOutcomeNoFinalization ==
    \A u \in Units :
        emitted[u] = <<>>
        => /\ endLog[u] = <<>>
           /\ finLog[u] = <<>>
           /\ EventsNamed(u, FinishedNames \cup FinishFailedNames) = {}
           /\ CallsNamed(u, FinishedNames \cup FinishFailedNames) = {}
           /\ \A v \in Units : \A i \in 1..Len(endLog[v]) :
                 endLog[v][i] # u

\* C27 witness: the guard created the span of the unit and stored its
\* marker, the interceptor piped the stream through tap, and the stream
\* has completed without a value or an error.
C27_Witness ==
    \E u \in Units :
        /\ pc[u] = "done"
        /\ emitted[u] = <<>>
        /\ wrapped[u]
        /\ created[u].ref = u
        /\ MarkerStoredBy(u) = {created[u].tid}
        /\ endLog[u] = <<>>

\* C28: for every unit of work, once the interceptor has handed the stream
\* of the handler on, canActivate has returned true, and when it started a
\* span or transaction with a trace id without failing, its start event is
\* published and the trace id that event carries is stored as marker; end
\* calls, finalizer runs and finish events are no more than
\* the notifications the handler has produced and there are none before
\* the interceptor ran; every finish event of the unit comes after its
\* start event, in the event log and in the calls of the listeners.
C28_SequentialLifecycle ==
    \A u \in Units :
        /\ Intercepted(u)
           => /\ result[u] = "true"
              /\ ( /\ created[u].ref = u
                    /\ truthy(created[u].tid)
                    /\ startError[u] = "none" )
                 => EventsNamed(u, StartedNames) # {}
              /\ \A i \in EventsNamed(u, StartedNames) :
                    truthy(events[u][i].args[1])
                    => MarkerStoredBy(u) = {events[u][i].args[1]}
        /\ Len(endLog[u]) <= Len(emitted[u])
        /\ Len(finLog[u]) <= Len(emitted[u])
        /\ Cardinality(EventsNamed(u, FinishedNames)) <= Len(emitted[u])
        /\ ~Intercepted(u)
           => /\ emitted[u] = <<>>
              /\ EventsNamed(u, FinishedNames \cup FinishFailedNames) = {}
        /\ \A i \in EventsNamed(u, StartedNames \cup StartFailedNames) :
              \A j \in EventsNamed(u, FinishedNames \cup FinishFailedNames) :
                  i < j
        /\ \A i \in CallsNamed(u, StartedNames \cup StartFailedNames) :
              \A j \in CallsNamed(u, FinishedNames \cup FinishFailedNames) :
                  i < j

\* C28 witness: the guard of the unit published its start event, the
\* handler produced an outcome and the finalizer ended the span and
\* published the finish event; the listeners were called for both.
C28_Witness ==
    \E u \in Units :
        /\ EventsNamed(u, StartedNames) # {}
        /\ EventsNamed(u, FinishedNames) # {}
        /\ endLog[u] # <<>>
        /\ CallsNamed(u, StartedNames) # {}
        /\ CallsNamed(u, FinishedNames) # {}

\* C29: OpenTelemetry variant; when the span captured at intercept gave an
\* undefined trace id, no run of the finalizer has published 'spanFinished'
\* and no listener of it has been called.
C29_NoFinishedEventWithoutTraceId ==
    \A u \in Units :
        ( /\ variant = "otel"
          /\ wrapped[u]
          /\ ~truthy(captured[u].tid) )
        => /\ EventsNamed(u, {"spanFinished"}) = {}
           /\ CallsNamed(u, {"spanFinished"}) = {}
           /\ \A i \in DOMAIN finLog[u] :
                 finLog[u][i].pub = IF finLog[u][i].threw THEN 1 ELSE 0

\* C29 witness: a span without a trace id was active at intercept and the
\* finalizer has run for a value of the handler.
C29_Witness ==
    \E u \in Units :
        /\ variant = "otel"
        /\ wrapped[u]
        /\ captured[u] = ExtSpan(Undefined)
        /\ finLog[u] # <<>>
        /\ emitted[u][1][1] = "next"

C31_WriteOnceMarker ==
    \A u \in Units :
        /\ Cardinality(MarkerStoredBy(u)) <= 1
        /\ \A i \in EventsNamed(u, StartedNames) :
              truthy(events[u][i].args[1])
              => /\ MarkerStoredBy(u) = {events[u][i].args[1]}
                 /\ \A k \in DOMAIN finLog[u] :
                       finLog[u][k].by \in {u, "nobody"}

\* C32: a unit of work whose guard published a start-failed event has
\* stored no marker and has started no span or transaction; after a run of
\* the finalizer whose end call threw, the marker the unit sees is the one
\* that run read.
C32_FailureLeavesStateUnchanged ==
    \A u \in Units :
        /\ ( Guarded(u) /\ EventsNamed(u, StartFailedNames) # {} )
           => /\ MarkerStoredBy(u) = {}
              /\ created[u] = NoSpan
        /\ \A k \in DOMAIN finLog[u] :
              finLog[u][k].threw
              => getCustomTransactionId(storeOf, marker, <<u, "caller">>)
                 = finLog[u][k].read

\* C33: whatever listeners throw, canActivate has neither thrown nor
\* rejected, and the subscriber has received exactly the notifications the
\* handler produced.
C33_ThrowingListenersContained ==
    \A u \in Units :
        /\ pc[u] # "rejected"
        /\ result[u] # "throw"
        /\ delivered[u] = emitted[u]

\* C36: New Relic variant; when a 'transactionFinished' listener throws,
\* every run of the finalizer that found the unit's own transaction
\* current, with the marker unset or equal to its id, has called
\* endTransaction().
C36_ListenerCannotBlockEnd ==
    \A u \in Units : \A k \in DOMAIN finLog[u] :
        ( /\ variant = "newrelic"
          /\ listenerThrows("transactionFinished")
          /\ finLog[u][k].span = u
          /\ finLog[u][k].read \in {Undefined, finLog[u][k].obs} )
        => finLog[u][k].ended

\* C34: for every unit of work, whatever notifications its handler's
\* stream produced, the finalizer has called end at most once and has
\* published the finished event at most once.
C34_AtMostOneFinalization ==
    \A u \in Units :
        /\ Len(endLog[u]) <= 1
        /\ Cardinality(EventsNamed(u, FinishedNames)) <= 1

\* C35: OpenTelemetry variant; every call of finishSpan that called
\* span.end() observed a defined trace id and read a defined marker equal to
\* it; with an absent trace id and no marker no end call is made.
C35_NoEndWithoutIdentity ==
    \A u \in Units : \A k \in DOMAIN finLog[u] :
        ( variant = "otel" /\ finLog[u][k].ended )
        => /\ truthy(finLog[u][k].obs)
           /\ truthy(finLog[u][k].read)
           /\ finLog[u][k].obs = finLog[u][k].read

\* C37: a unit (one invocation of the establisher) has published at most
\* one of the started and the start-failed event, never both, and a unit
\* that published start-failed has stored no marker.
C37_StartedXorStartFailed ==
    \A u \in Units :
        /\ Cardinality(EventsNamed(u, StartedNames \cup StartFailedNames)) <= 1
        /\ EventsNamed(u, StartFailedNames) # {} => MarkerStoredBy(u) = {}

\* C38: every started event a unit published carries a defined trace id,
\* and that id is the marker the unit stored, whatever the context type.
C38_StartedImpliesOwnership ==
    \A u \in Units : \A i \in EventsNamed(u, StartedNames) :
        /\ truthy(events[u][i].args[1])
        /\ events[u][i].args[1] \in MarkerStoredBy(u)

====
